---------------------------- MODULE Spec2Model ----------------------------
(***************************************************************************)
(* Model of the Mesos master state collector (master_state.go):            *)
(*   - newMasterStateCollector builds the registry `metrics`: 19 gauge     *)
(*     vectors plus, for a non-empty slaveAttributeLabels, one settable    *)
(*     counter vector carrying the slaves' attributes;                     *)
(*   - masterCollector.Collect fetches /state and, for every registered    *)
(*     vector, runs its setter (Reset, then one Set per slave/framework)   *)
(*     and the vector's own Collect;                                       *)
(*   - ranges.UnmarshalJSON / ranges.size, the port range codec.           *)
(* Spec is the collector under concurrent calls of Collect; SpecParse runs *)
(* the codec on every short text; SpecNormalise runs the allow-list match  *)
(* of the attributes setter on every short key and name; SpecExtract runs  *)
(* one setter twice on one state.                                          *)
(* Text (attribute keys, label names, range encodings) is a sequence of    *)
(* one-character strings; pids, hostnames, framework names and attribute   *)
(* values are opaque strings.  Floats are modelled by naturals.            *)
(***************************************************************************)
EXTENDS Integers, Sequences, FiniteSets, TLC

VARIABLES
    slaveAttributeLabels, \* the allow-list handed to newMasterStateCollector
    metrics,              \* masterCollector.metrics: vector -> kind of its setter
    registered,           \* the registry has called Describe on the collector
    descs,                \* the vectors whose descriptor Describe has sent
    vec,                  \* every vector's current children: name -> samples
    pc,                   \* each Collect call's position
    st,                   \* each Collect call's local `var s state`
    fetchOK,              \* what fetchAndDecode returned to that call
    order,                \* the order in which that call ranges over metrics
    pos,                  \* index into order: the vector being handled
    idx,                  \* index of the next slave/framework in the setter loop
    emitted,              \* what the call's last vector.Collect(ch) sent
    overlapped,           \* the call has run while another call was running
    text,                 \* UnmarshalJSON: the argument `data` as passed
    data,                 \* UnmarshalJSON: `data` after bytes.Trim
    toks,                 \* UnmarshalJSON: bytes.Split(data, ",") not yet visited
    rs,                   \* UnmarshalJSON: the target *rs
    perr,                 \* UnmarshalJSON: "none" | "badrange" | "syntax" | "range"
    ppc,                  \* UnmarshalJSON: "start" | "loop" | "done"; "sized" after size()
    sz,                   \* ranges.size: what size() returned for *rs
    attrKey,              \* attributes setter: `key`, a key of s.Attributes
    attrValue,            \* attributes setter: `value`, the raw value under it
    allowName,            \* the one name of the allow-list the key is matched with
    normalisedAttributeLabels, \* normaliseLabelList(slaveAttributeLabels)
    normalisedKey,        \* attributes setter: `normalisedLabel`, normaliseLabel(key)
    renormalised,         \* normaliseLabel(normalisedKey)
    slaveAttributesExport, \* attributes setter: the prometheus.Labels map
    npc,                  \* "build" | "range" | "again" | "done"
    xstate,               \* extraction runs: the state both runs are given
    xdesc,                \* extraction runs: the vector whose setter is run
    xvec,                 \* each run's own vector, empty at the start
    xidx                  \* each run's index of the next slave/framework

cvars == <<slaveAttributeLabels, metrics, registered, descs, vec, pc, st,
           fetchOK, order, pos, idx, emitted, overlapped>>
pvars == <<text, data, toks, rs, perr, ppc, sz>>
nvars == <<attrKey, attrValue, allowName, normalisedAttributeLabels,
           normalisedKey, renormalised, slaveAttributesExport, npc>>
xvars == <<xstate, xdesc, xvec, xidx>>
vars == <<cvars, pvars, nvars, xvars>>

-----------------------------------------------------------------------------
(* Generic helpers.                                                        *)

RECURSIVE SeqsUpTo(_, _)
SeqsUpTo(S, n) ==
    IF n = 0 THEN {<<>>}
    ELSE LET shorter == SeqsUpTo(S, n - 1)
         IN  shorter \cup {Append(s, c) : s \in {t \in shorter : Len(t) = n - 1}, c \in S}

Range(f) == {f[x] : x \in DOMAIN f}

Perms(S) == {q \in [1..Cardinality(S) -> S] : Range(q) = S}

-----------------------------------------------------------------------------
(* The range codec: type ranges [][2]uint64.                               *)

\* Longest encoding the range codec is run on (besides SpecExamples).
MaxLen == 5

\* The bytes the enumerated encodings are made of.
Alphabet == {"1", "5", "-", ",", " ", "[", "a"}

Digits == {"0", "1", "2", "3", "4", "5", "6", "7", "8", "9"}

DigitVal(c) ==
    CASE c = "0" -> 0 [] c = "1" -> 1 [] c = "2" -> 2 [] c = "3" -> 3
      [] c = "4" -> 4 [] c = "5" -> 5 [] c = "6" -> 6 [] c = "7" -> 7
      [] c = "8" -> 8 [] c = "9" -> 9

\* The cutset of bytes.Trim(data, `[]"`).
Cutset == {"[", "]", "\""}

\* unicode.IsSpace on the bytes the model uses.
Space == {" ", "\t", "\n", "\r"}

RECURSIVE TrimLeft(_, _)
TrimLeft(s, cut) ==
    IF s # <<>> /\ Head(s) \in cut THEN TrimLeft(Tail(s), cut) ELSE s

RECURSIVE TrimRight(_, _)
TrimRight(s, cut) ==
    IF s # <<>> /\ s[Len(s)] \in cut
    THEN TrimRight(SubSeq(s, 1, Len(s) - 1), cut)
    ELSE s

\* bytes.Trim(s, cutset): strip leading and trailing bytes of the cutset.
Trim(s, cut) == TrimRight(TrimLeft(s, cut), cut)

\* bytes.TrimSpace(s).
TrimSpace(s) == Trim(s, Space)

\* Index of the first occurrence of byte c in s, 0 when there is none.
IndexByte(s, c) ==
    IF \E i \in 1..Len(s) : s[i] = c
    THEN CHOOSE i \in 1..Len(s) : s[i] = c /\ \A j \in 1..(i - 1) : s[j] # c
    ELSE 0

\* bytes.Split(s, sep) for a one-byte sep: every piece, empty ones included.
RECURSIVE Split(_, _)
Split(s, sep) ==
    LET i == IndexByte(s, sep)
    IN  IF i = 0 THEN <<s>>
        ELSE <<SubSeq(s, 1, i - 1)>> \o Split(SubSeq(s, i + 1, Len(s)), sep)

\* bytes.SplitN(s, sep, 2): cut at the first sep only.
SplitN2(s, sep) ==
    LET i == IndexByte(s, sep)
    IN  IF i = 0 THEN <<s>>
        ELSE <<SubSeq(s, 1, i - 1), SubSeq(s, i + 1, Len(s))>>

RECURSIVE DecimalValue(_)
DecimalValue(s) ==
    IF s = <<>> THEN 0
    ELSE 10 * DecimalValue(SubSeq(s, 1, Len(s) - 1)) + DigitVal(s[Len(s)])

\* strconv.ParseUint(s, 10, 64): the empty string and any byte that is not a
\* decimal digit (a sign included) are syntax errors.  Numerals of at most
\* MaxLen digits stay far below 2^64, so ErrRange does not arise here.
ParseUint(s) ==
    IF s = <<>> \/ \E i \in 1..Len(s) : s[i] \notin Digits
    THEN [err |-> "syntax", n |-> 0]
    ELSE [err |-> "none", n |-> DecimalValue(s)]

\* The loop body without bytes.TrimSpace around the bounds.
ParseRangeNoTrimSpace(r) ==
    LET ps == SplitN2(r, "-")
    IN  IF Len(ps) # 2 THEN [err |-> "badrange", rng |-> <<0, 0>>]
        ELSE LET lo == ParseUint(ps[1])
                 hi == ParseUint(ps[2])
             IN  IF lo.err # "none" THEN [err |-> lo.err, rng |-> <<0, 0>>]
                 ELSE IF hi.err # "none" THEN [err |-> hi.err, rng |-> <<lo.n, 0>>]
                 ELSE [err |-> "none", rng |-> <<lo.n, hi.n>>]

\* One iteration of the loop of UnmarshalJSON over token r: the error it
\* returns with, or the pair it appends.
ParseRange(r) ==
    LET ps == SplitN2(r, "-")
    IN  IF Len(ps) # 2 THEN [err |-> "badrange", rng |-> <<0, 0>>]
        ELSE LET lo == ParseUint(TrimSpace(ps[1]))
                 hi == ParseUint(TrimSpace(ps[2]))
             IN  IF lo.err # "none" THEN [err |-> lo.err, rng |-> <<0, 0>>]
                 ELSE IF hi.err # "none" THEN [err |-> hi.err, rng |-> <<lo.n, 0>>]
                 ELSE [err |-> "none", rng |-> <<lo.n, hi.n>>]

\* The size of the list with its pairs merged: how many different numbers
\* they cover.
sizeMerged(r) == Cardinality(UNION {r[i][1]..r[i][2] : i \in 1..Len(r)})

\* ranges.size: sz += 1 + (rs[i][1] - rs[i][0]) over the pairs as they are.
\* The arithmetic is that of uint64, modulo 2^64.  A value of the model
\* stands for its residue: n >= 0 for n itself, n < 0 for 2^64 + n, the
\* number the subtraction of a larger from a smaller bound wraps around to
\* (every magnitude of the model is far below 2^63, so sums and differences
\* of residues are the residues of the sums and differences).
RECURSIVE size(_)
size(r) ==
    IF r = <<>> THEN 0
    ELSE size(SubSeq(r, 1, Len(r) - 1)) + 1 + (r[Len(r)][2] - r[Len(r)][1])

\* The encodings section 8 of the specification names.
SpecExamples ==
    { <<>>, <<"5", "-", "5">>,
      <<"0", "-", "3", ",", "1", "0", "-", "1", "2">>,
      <<"a", "b", "c">>, <<"5">>, <<"5", "-">>,
      <<"[", "3", "1", "0", "0", "0", "-", "3", "2", "0", "0", "0", "]">>,
      <<"\"", "[", "1", "-", "5", ",", " ", "7", " ", "-", "\t", "9", "]", "\"">> }

Texts == SeqsUpTo(Alphabet, MaxLen) \cup SpecExamples

\* if data = bytes.Trim(data, `[]"`); len(data) == 0 { return nil }
UnmarshalBegin ==
    /\ ppc = "start"
    /\ data' = Trim(text, Cutset)
    /\ IF Len(data') = 0
       THEN /\ ppc' = "done"
            /\ toks' = <<>>
       ELSE /\ ppc' = "loop"
            /\ toks' = Split(data', ",")
    /\ UNCHANGED <<text, rs, perr, sz, cvars, nvars, xvars>>

\* One pass of `for _, r := range bytes.Split(data, []byte(","))`.
UnmarshalToken ==
    /\ ppc = "loop"
    /\ LET res == ParseRange(Head(toks))
       IN  IF res.err # "none"
           THEN /\ perr' = res.err
                /\ ppc' = "done"
                /\ UNCHANGED <<rs, toks>>
           ELSE /\ rs' = Append(rs, res.rng)
                /\ toks' = Tail(toks)
                /\ ppc' = IF Tail(toks) = <<>> THEN "done" ELSE "loop"
                /\ UNCHANGED perr
    /\ UNCHANGED <<text, data, sz, cvars, nvars, xvars>>

\* rs.size() on the list a successful UnmarshalJSON has decoded, as the
\* setters of the ports gauges call it on the pools of a decoded state.
RangesSize ==
    /\ ppc = "done"
    /\ perr = "none"
    /\ sz' = size(rs)
    /\ ppc' = "sized"
    /\ UNCHANGED <<text, data, toks, rs, perr, cvars, nvars, xvars>>

-----------------------------------------------------------------------------
(* The attribute normaliser and the helpers the attribute setter calls.    *)

\* The characters a label name keeps: [A-Za-z0-9_].
LabelChars ==
    {"a", "b", "c", "d", "e", "f", "g", "h", "i", "j", "k", "l", "m", "n",
     "o", "p", "q", "r", "s", "t", "u", "v", "w", "x", "y", "z",
     "A", "B", "C", "D", "E", "F", "G", "H", "I", "J", "K", "L", "M", "N",
     "O", "P", "Q", "R", "S", "T", "U", "V", "W", "X", "Y", "Z", "_"} \cup Digits

\* normaliseLabel(label): every character outside [A-Za-z0-9_] becomes "_".
normaliseLabel(label) ==
    [i \in 1..Len(label) |-> IF label[i] \in LabelChars THEN label[i] ELSE "_"]

\* normaliseLabelList(labels): normaliseLabel of each, in order.
normaliseLabelList(labels) ==
    [i \in 1..Len(labels) |-> normaliseLabel(labels[i])]

\* stringInSlice(a, list).
stringInSlice(a, list) == \E i \in 1..Len(list) : list[i] = a

\* attributeString(value): the string a raw attribute value decodes to; a
\* number, a boolean or a structured value is an error.
attributeString(value) ==
    IF value.t = "string" THEN [err |-> FALSE, s |-> value.s]
    ELSE [err |-> TRUE, s |-> ""]

\* getLabelValuesFromMap(labels, orderedLabelKeys): the map's values in the
\* order of the keys; a key the map lacks reads as Go's zero value "".
getLabelValuesFromMap(labels, orderedLabelKeys) ==
    [i \in 1..Len(orderedLabelKeys) |->
        IF orderedLabelKeys[i] \in DOMAIN labels
        THEN labels[orderedLabelKeys[i]] ELSE ""]

-----------------------------------------------------------------------------
(* The vectors (prometheus.GaugeVec, settableCounterVec): a vector's       *)
(* children are a set of samples [lv |-> label values, v |-> value], at    *)
(* most one per tuple of label values.                                     *)

\* GaugeVec.WithLabelValues(lv...).Set(v): get or create the child for lv and
\* store v in it.
SetSample(samples, lv, v) ==
    {x \in samples : x.lv # lv} \cup {[lv |-> lv, v |-> v]}

\* settableCounterVec.Set(v, lv...): the same on the attributes counter; no
\* other child is touched.
CounterSet(samples, lv, v) ==
    {x \in samples : x.lv # lv} \cup {[lv |-> lv, v |-> v]}

-----------------------------------------------------------------------------
(* newMasterStateCollector.                                                *)

slaveLabel == <<"s", "l", "a", "v", "e">>
hostnameLabel == <<"h", "o", "s", "t", "n", "a", "m", "e">>
frameworkLabel == <<"f", "r", "a", "m", "e", "w", "o", "r", "k">>

\* labels := []string{"slave", "hostname"}
labels == <<slaveLabel, hostnameLabel>>

\* framework_labels := []string{"framework"}
framework_labels == <<frameworkLabel>>

\* The twelve mesos_slave_* gauges, in the order of the map literal.
SlaveGauges ==
    <<"cpus", "cpus_used", "cpus_unreserved",
      "mem_bytes", "mem_used_bytes", "mem_unreserved_bytes",
      "disk_bytes", "disk_used_bytes", "disk_unreserved_bytes",
      "ports", "ports_used", "ports_unreserved">>

\* The seven mesos_framework_* gauges, in the order of the map literal.
FrameworkGauges ==
    <<"active", "cpu_used", "disk_used", "mem_used",
      "cpu_offered", "mem_offered", "disk_offered">>

\* The name of the settable counter of the slaves' attributes.
AttributesMetric == "attributes"

\* The KiB-to-bytes factor of the mem and disk gauges of a slave.
KiB == 1024

\* The slave gauges with the memory of the total pool left in KiB.
SlaveGaugeValueMemInKiB(d, s) ==
    CASE d = "cpus"                  -> s.Total.CPUs
      [] d = "cpus_used"             -> s.Used.CPUs
      [] d = "cpus_unreserved"       -> s.Unreserved.CPUs
      [] d = "mem_bytes"             -> s.Total.Mem
      [] d = "mem_used_bytes"        -> s.Used.Mem * KiB
      [] d = "mem_unreserved_bytes"  -> s.Unreserved.Mem * KiB
      [] d = "disk_bytes"            -> s.Total.Disk * KiB
      [] d = "disk_used_bytes"       -> s.Used.Disk * KiB
      [] d = "disk_unreserved_bytes" -> s.Unreserved.Disk * KiB
      [] d = "ports"                 -> size(s.Total.Ports)
      [] d = "ports_used"            -> size(s.Used.Ports)
      [] d = "ports_unreserved"      -> size(s.Unreserved.Ports)

\* The value a slave gauge's setter passes to Set for slave s.
SlaveGaugeValue(d, s) ==
    CASE d = "cpus"                  -> s.Total.CPUs
      [] d = "cpus_used"             -> s.Used.CPUs
      [] d = "cpus_unreserved"       -> s.Unreserved.CPUs
      [] d = "mem_bytes"             -> s.Total.Mem * KiB
      [] d = "mem_used_bytes"        -> s.Used.Mem * KiB
      [] d = "mem_unreserved_bytes"  -> s.Unreserved.Mem * KiB
      [] d = "disk_bytes"            -> s.Total.Disk * KiB
      [] d = "disk_used_bytes"       -> s.Used.Disk * KiB
      [] d = "disk_unreserved_bytes" -> s.Unreserved.Disk * KiB
      [] d = "ports"                 -> size(s.Total.Ports)
      [] d = "ports_used"            -> size(s.Used.Ports)
      [] d = "ports_unreserved"      -> size(s.Unreserved.Ports)

\* The value a framework gauge's setter passes to Set for framework f.
FrameworkGaugeValue(d, f) ==
    CASE d = "active"       -> IF f.Active THEN 1 ELSE 0
      [] d = "cpu_used"     -> f.Used.CPUs
      [] d = "disk_used"    -> f.Used.Disk
      [] d = "mem_used"     -> f.Used.Mem
      [] d = "cpu_offered"  -> f.Offered.CPUs
      [] d = "mem_offered"  -> f.Offered.Mem
      [] d = "disk_offered" -> f.Offered.Disk

\* The gauges of the map literal, each with the kind of its setter: one that
\* ranges over st.Slaves or one that ranges over st.Frameworks.
FixedMetrics ==
    [d \in Range(SlaveGauges) \cup Range(FrameworkGauges) |->
        IF d \in Range(SlaveGauges) THEN "slave" ELSE "framework"]

\* slaveAttributesLabelsExport := append(labels, normalisedAttributeLabels...)
slaveAttributesLabelsExport(allow) == labels \o normaliseLabelList(allow)

\* The label names vector d is created with.
VecLabels(d, allow) ==
    IF d = AttributesMetric THEN slaveAttributesLabelsExport(allow)
    ELSE IF d \in Range(SlaveGauges) THEN labels
    ELSE framework_labels

\* The attributes counter registered whatever the allow-list.
NewMetricsAlwaysAttributes(allow) ==
    [d \in DOMAIN FixedMetrics \cup {AttributesMetric} |->
        IF d = AttributesMetric THEN "attributes" ELSE FixedMetrics[d]]

\* The map newMasterStateCollector returns in masterCollector.metrics.
NewMetrics(allow) ==
    IF Len(allow) > 0
    THEN [d \in DOMAIN FixedMetrics \cup {AttributesMetric} |->
            IF d = AttributesMetric THEN "attributes" ELSE FixedMetrics[d]]
    ELSE FixedMetrics

-----------------------------------------------------------------------------
(* The states /state is taken to return.                                   *)

Res(c, m, d, p) == [CPUs |-> c, Mem |-> m, Disk |-> d, Ports |-> p]

FRes(c, m, d) == [CPUs |-> c, Mem |-> m, Disk |-> d]

Str(x) == [t |-> "string", s |-> x]

Num(x) == [t |-> "number", s |-> x]

rack_dash_id == <<"r", "a", "c", "k", "-", "i", "d">>
rack_dot_id == <<"r", "a", "c", "k", ".", "i", "d">>
zone == <<"z", "o", "n", "e">>

NoAttributes == [k \in {} |-> Str("")]

\* Slave s1 on h1, attribute rack-id = "r1".
SlaveA ==
    [PID |-> "s1", Hostname |-> "h1",
     Total |-> Res(4, 2, 3, <<<<31000, 32000>>>>),
     Used |-> Res(1, 1, 2, <<<<31000, 31001>>, <<31005, 31005>>>>),
     Unreserved |-> Res(3, 5, 6, <<<<31002, 31004>>, <<31003, 31010>>>>),
     Attributes |-> [k \in {rack_dash_id} |-> Str("r1")]]

\* A second entry with the pid and hostname of SlaveA and other resources.
SlaveA2 ==
    [PID |-> "s1", Hostname |-> "h1",
     Total |-> Res(8, 7, 9, <<>>),
     Used |-> Res(2, 3, 4, <<>>),
     Unreserved |-> Res(6, 4, 5, <<>>),
     Attributes |-> NoAttributes]

\* Slave s2 on h2: a numeric rack-id, and an attribute outside the allow-list.
SlaveB ==
    [PID |-> "s2", Hostname |-> "h2",
     Total |-> Res(16, 12, 13, <<<<5, 5>>>>),
     Used |-> Res(10, 11, 14, <<>>),
     Unreserved |-> Res(15, 17, 18, <<<<5, 5>>, <<5, 5>>>>),
     Attributes |-> [k \in {rack_dash_id, zone} |->
                        IF k = zone THEN Str("z1") ELSE Num("7")]]

\* Slave s2 later: other resources, and two keys that normalise to rack_id.
SlaveB2 ==
    [PID |-> "s2", Hostname |-> "h2",
     Total |-> Res(20, 21, 22, <<<<0, 3>>, <<10, 12>>>>),
     Used |-> Res(23, 24, 25, <<<<0, 0>>>>),
     Unreserved |-> Res(26, 27, 28, <<<<2, 3>>, <<1, 1>>>>),
     Attributes |-> [k \in {rack_dash_id, rack_dot_id} |->
                        IF k = rack_dash_id THEN Str("r2") ELSE Str("r3")]]

FrameworkF ==
    [Name |-> "marathon", Active |-> TRUE,
     Used |-> FRes(2, 4, 6), Offered |-> FRes(1, 3, 5)]

\* A second framework registered under the name of FrameworkF.
FrameworkF2 ==
    [Name |-> "marathon", Active |-> FALSE,
     Used |-> FRes(7, 8, 9), Offered |-> FRes(10, 11, 12)]

FrameworkG ==
    [Name |-> "chronos", Active |-> FALSE,
     Used |-> FRes(13, 14, 15), Offered |-> FRes(16, 17, 18)]

\* `var s state`: the zero value.
EmptyState == [Slaves |-> <<>>, Frameworks |-> <<>>]

\* The documents the master serves over the run: in the second, slave s1 is
\* gone, s2 has changed and two frameworks carry one name; in the third, two
\* slaves carry one pid and hostname and no framework is registered.
Snapshots ==
    { [Slaves |-> <<SlaveB, SlaveA>>, Frameworks |-> <<FrameworkG>>],
      [Slaves |-> <<SlaveB2>>, Frameworks |-> <<FrameworkF, FrameworkF2>>],
      [Slaves |-> <<SlaveA, SlaveA2>>, Frameworks |-> <<>>] }

\* The allow-lists the collector is built with.
AllowLists == { <<>>, <<rack_dash_id>> }

\* The concurrent calls of Collect the server may have in flight.
Calls == {"c1", "c2"}

\* How many vectors of a call's range may be handled while another call is
\* in flight: two calls overlap on the last MaxOverlap vectors of the earlier
\* and the first MaxOverlap vectors of the later one.
MaxOverlap == 2

-----------------------------------------------------------------------------
(* masterCollector.Collect and the setters of the registry.                *)

\* What c.fetchAndDecode("/state", &s) leaves in s: a decoded document, or,
\* when the fetch fails, the zero value s was declared with.
FetchResults ==
    {[ok |-> TRUE, s |-> x] : x \in Snapshots} \cup {[ok |-> FALSE, s |-> EmptyState]}

\* The vectors in the order of the source, the attributes counter last.
DeclOrder(m) ==
    SlaveGauges \o FrameworkGauges \o
        (IF AttributesMetric \in DOMAIN m THEN <<AttributesMetric>> ELSE <<>>)

Reverse(q) == [i \in 1..Len(q) |-> q[Len(q) + 1 - i]]

\* `for c, set := range c.metrics`: Go leaves the order of a map range open;
\* every key is visited once.  The model lets a call take the order of the
\* source or its reverse.
Orders(m) == {DeclOrder(m), Reverse(DeclOrder(m))}

\* The list a setter of the given kind ranges over.
Entities(kind, state) ==
    IF kind = "framework" THEN state.Frameworks ELSE state.Slaves

\* A setter that never calls Reset().
SetterStartNoReset(kind, samples) == samples

\* Every setter, the attributes' one included, calling Reset() first.
SetterStartResetAll(kind, samples) == {}

\* Only the setters of the frameworks' gauges calling Reset().
SetterStartResetFrameworksOnly(kind, samples) ==
    IF kind = "framework" THEN {} ELSE samples

\* What a setter does to its vector before its loop: the gauges' setters call
\* Reset(), which deletes every child; the attributes' setter does not.
SetterStart(kind, samples) ==
    IF kind = "attributes" THEN samples ELSE {}

\* The label values a gauge's setter passes to WithLabelValues.
GaugeLabelValues(kind, e) ==
    IF kind = "framework" THEN <<e.Name>> ELSE <<e.PID, e.Hostname>>

\* The value a gauge's setter passes to Set.
GaugeValue(d, kind, e) ==
    IF kind = "framework" THEN FrameworkGaugeValue(d, e) ELSE SlaveGaugeValue(d, e)

\* The loop matching the key as it comes, not its normalised form.
RECURSIVE RangeAttributesRawKey(_, _, _, _)
RangeAttributesRawKey(export, attrs, ks, normalised) ==
    IF ks = <<>> THEN export
    ELSE LET key == Head(ks)
             attribute == attributeString(attrs[key])
             next == IF stringInSlice(key, normalised) /\ ~attribute.err
                     THEN [export EXCEPT ![key] = attribute.s]
                     ELSE export
         IN  RangeAttributesRawKey(next, attrs, Tail(ks), normalised)

\* The loop `for key, value := range s.Attributes` over the keys in order ks.
RECURSIVE RangeAttributes(_, _, _, _)
RangeAttributes(export, attrs, ks, normalised) ==
    IF ks = <<>> THEN export
    ELSE LET key == Head(ks)
             normalisedLabel == normaliseLabel(key)
             attribute == attributeString(attrs[key])
             next == IF stringInSlice(normalisedLabel, normalised) /\ ~attribute.err
                     THEN [export EXCEPT ![normalisedLabel] = attribute.s]
                     ELSE export
         IN  RangeAttributes(next, attrs, Tail(ks), normalised)

\* The setter's map built with the keys matched as they come.
SlaveAttributesExportRawKey(s, ks, normalised) ==
    LET init == [l \in {slaveLabel} \cup Range(normalised) |->
                    IF l \in Range(normalised) THEN "" ELSE s.PID]
    IN  RangeAttributesRawKey(init, s.Attributes, ks, normalised)

\* slaveAttributesExport as the attributes' setter builds it for slave s, the
\* keys of s.Attributes ranged over in order ks.
SlaveAttributesExport(s, ks, normalised) ==
    LET init == [l \in {slaveLabel} \cup Range(normalised) |->
                    IF l \in Range(normalised) THEN "" ELSE s.PID]
    IN  RangeAttributes(init, s.Attributes, ks, normalised)

\* The label values the attributes' setter passes to Set(1, ...).
AttributesLabelValues(s, ks, allow, exportLabels) ==
    getLabelValuesFromMap(
        SlaveAttributesExport(s, ks, normaliseLabelList(allow)), exportLabels)

NoMessage == [desc |-> "", samples |-> {}]

Busy(c) == pc[c] # "idle"

Cur(c) == order[c][pos[c]]

\* The vectors call c has still to finish.
Left(c) ==
    IF pc[c] \in {"idle", "return"} THEN 0 ELSE Len(order[c]) + 1 - pos[c]

\* masterCollector.Describe: every vector of the registry describes itself.
Describe ==
    /\ ~registered
    /\ registered' = TRUE
    /\ descs' = DOMAIN metrics
    /\ UNCHANGED <<slaveAttributeLabels, metrics, vec, pc, st, fetchOK, order,
                   pos, idx, emitted, overlapped, pvars, nvars, xvars>>

\* Collect, up to the range over c.metrics: declare s, fetch, fix the order.
CollectFetch(c) ==
    /\ registered
    /\ pc[c] = "idle"
    /\ \A y \in Calls \ {c} : Left(y) <= MaxOverlap
    /\ \E r \in FetchResults :
          /\ st' = [st EXCEPT ![c] = r.s]
          /\ fetchOK' = [fetchOK EXCEPT ![c] = r.ok]
    /\ \E o \in Orders(metrics) : order' = [order EXCEPT ![c] = o]
    /\ pos' = [pos EXCEPT ![c] = 1]
    /\ idx' = [idx EXCEPT ![c] = 1]
    /\ pc' = [pc EXCEPT ![c] = "enter"]
    /\ emitted' = [emitted EXCEPT ![c] = NoMessage]
    /\ overlapped' = [x \in Calls |->
                        IF \E y \in Calls \ {c} : Busy(y)
                        THEN (x = c \/ Busy(x))
                        ELSE overlapped[x]]
    /\ UNCHANGED <<slaveAttributeLabels, metrics, registered, descs, vec,
                   pvars, nvars, xvars>>

\* set(&s, c), up to its loop.
SetterEnter(c) ==
    /\ pc[c] = "enter"
    /\ pos[c] <= MaxOverlap \/ \A y \in Calls \ {c} : ~Busy(y)
    /\ LET d == Cur(c)
           kind == metrics[d]
       IN  /\ vec' = [vec EXCEPT ![d] = SetterStart(kind, @)]
           /\ pc' = [pc EXCEPT ![c] =
                        IF Entities(kind, st[c]) = <<>> THEN "collect" ELSE "loop"]
    /\ idx' = [idx EXCEPT ![c] = 1]
    /\ UNCHANGED <<slaveAttributeLabels, metrics, registered, descs, st,
                   fetchOK, order, pos, emitted, overlapped, pvars, nvars, xvars>>

\* One pass of a gauge setter's loop: WithLabelValues(...).Set(...).
GaugeSet(c) ==
    /\ pc[c] = "loop"
    /\ metrics[Cur(c)] # "attributes"
    /\ LET d == Cur(c)
           kind == metrics[d]
           list == Entities(kind, st[c])
           e == list[idx[c]]
       IN  /\ vec' = [vec EXCEPT ![d] =
                        SetSample(@, GaugeLabelValues(kind, e), GaugeValue(d, kind, e))]
           /\ pc' = [pc EXCEPT ![c] = IF idx[c] = Len(list) THEN "collect" ELSE "loop"]
    /\ idx' = [idx EXCEPT ![c] = @ + 1]
    /\ UNCHANGED <<slaveAttributeLabels, metrics, registered, descs, st,
                   fetchOK, order, pos, emitted, overlapped, pvars, nvars, xvars>>

\* One pass of the attributes setter's loop over st.Slaves; Go ranges over
\* the map s.Attributes in an order of its choosing.
AttributesSet(c) ==
    /\ pc[c] = "loop"
    /\ metrics[Cur(c)] = "attributes"
    /\ LET d == Cur(c)
           list == st[c].Slaves
           s == list[idx[c]]
       IN  /\ \E ks \in Perms(DOMAIN s.Attributes) :
                 vec' = [vec EXCEPT ![d] =
                           CounterSet(@, AttributesLabelValues(s, ks,
                                          slaveAttributeLabels,
                                          slaveAttributesLabelsExport(slaveAttributeLabels)), 1)]
           /\ pc' = [pc EXCEPT ![c] = IF idx[c] = Len(list) THEN "collect" ELSE "loop"]
    /\ idx' = [idx EXCEPT ![c] = @ + 1]
    /\ UNCHANGED <<slaveAttributeLabels, metrics, registered, descs, st,
                   fetchOK, order, pos, emitted, overlapped, pvars, nvars, xvars>>

\* c.Collect(ch): the vector sends its children as they are now (the vector
\* holds its lock over Reset, over the lookup of a child and over Collect, so
\* each is one step).
VecCollect(c) ==
    /\ pc[c] = "collect"
    /\ emitted' = [emitted EXCEPT ![c] = [desc |-> Cur(c), samples |-> vec[Cur(c)]]]
    /\ IF pos[c] < Len(order[c])
       THEN /\ pos' = [pos EXCEPT ![c] = @ + 1]
            /\ pc' = [pc EXCEPT ![c] = "enter"]
       ELSE /\ pc' = [pc EXCEPT ![c] = "return"]
            /\ UNCHANGED pos
    /\ idx' = [idx EXCEPT ![c] = 1]
    /\ UNCHANGED <<slaveAttributeLabels, metrics, registered, descs, vec, st,
                   fetchOK, order, overlapped, pvars, nvars, xvars>>

\* Collect returns; its locals are gone.
CollectReturn(c) ==
    /\ pc[c] = "return"
    /\ pc' = [pc EXCEPT ![c] = "idle"]
    /\ st' = [st EXCEPT ![c] = EmptyState]
    /\ fetchOK' = [fetchOK EXCEPT ![c] = TRUE]
    /\ order' = [order EXCEPT ![c] = <<>>]
    /\ pos' = [pos EXCEPT ![c] = 1]
    /\ emitted' = [emitted EXCEPT ![c] = NoMessage]
    /\ overlapped' = [overlapped EXCEPT ![c] = FALSE]
    /\ UNCHANGED <<slaveAttributeLabels, metrics, registered, descs, vec, idx,
                   pvars, nvars, xvars>>

-----------------------------------------------------------------------------
(* The allow-list match of the attributes setter, one key against one      *)
(* allow-listed name.                                                      *)

\* The longest attribute key and allow-listed name.
MaxName == 3

\* The characters of keys and names: a letter, the underscore, and two
\* characters no label name may hold.
NameAlphabet == {"a", "_", "-", "."}

Names == SeqsUpTo(NameAlphabet, MaxName)

\* The raw values an attribute may carry: a string or a number.
Values == {Str("v"), Num("7")}

\* The slave the setter is run on: pid s1, the one attribute key -> value.
SlaveOf(k, v) ==
    [PID |-> "s1", Hostname |-> "h1",
     Total |-> Res(0, 0, 0, <<>>), Used |-> Res(0, 0, 0, <<>>),
     Unreserved |-> Res(0, 0, 0, <<>>),
     Attributes |-> [x \in {k} |-> v]]

\* normalisedAttributeLabels := normaliseLabelList(slaveAttributeLabels)
NormaliseAllowList ==
    /\ npc = "build"
    /\ normalisedAttributeLabels' = normaliseLabelList(<<allowName>>)
    /\ npc' = "range"
    /\ UNCHANGED <<attrKey, attrValue, allowName, normalisedKey, renormalised,
                   slaveAttributesExport, cvars, pvars, xvars>>

\* The setter's body for the slave: the map with "slave" and the defaulted
\* labels, then the pass of `for key, value := range s.Attributes`.
RangeKey ==
    /\ npc = "range"
    /\ normalisedKey' = normaliseLabel(attrKey)
    /\ slaveAttributesExport' =
           SlaveAttributesExport(SlaveOf(attrKey, attrValue), <<attrKey>>,
                                 normalisedAttributeLabels)
    /\ npc' = "again"
    /\ UNCHANGED <<attrKey, attrValue, allowName, normalisedAttributeLabels,
                   renormalised,
                   cvars, pvars, xvars>>

\* normaliseLabel on a name it has already normalised, as when the key or
\* the allow-listed name handed in is one it produced.
NormaliseAgain ==
    /\ npc = "again"
    /\ renormalised' = normaliseLabel(normalisedKey)
    /\ npc' = "done"
    /\ UNCHANGED <<attrKey, attrValue, allowName, normalisedAttributeLabels,
                   normalisedKey, slaveAttributesExport, cvars, pvars, xvars>>

-----------------------------------------------------------------------------
(* A setter run twice on one state, each run on a vector of its own that   *)
(* starts empty.                                                           *)

Runs == {"r1", "r2"}

\* The list the setter of xdesc ranges over.
XEntities == Entities(metrics[xdesc], xstate)

\* One pass of a gauge setter's loop in run r.
ExtractGauge(r) ==
    /\ metrics[xdesc] # "attributes"
    /\ xidx[r] <= Len(XEntities)
    /\ LET kind == metrics[xdesc]
           e == XEntities[xidx[r]]
       IN  xvec' = [xvec EXCEPT ![r] =
                      SetSample(@, GaugeLabelValues(kind, e), GaugeValue(xdesc, kind, e))]
    /\ xidx' = [xidx EXCEPT ![r] = @ + 1]
    /\ UNCHANGED <<xstate, xdesc, cvars, pvars, nvars>>

\* One pass of the attributes setter's loop in run r; Go ranges over the
\* map s.Attributes in an order of its choosing.
ExtractAttributes(r) ==
    /\ metrics[xdesc] = "attributes"
    /\ xidx[r] <= Len(XEntities)
    /\ LET s == XEntities[xidx[r]]
       IN  \E ks \in Perms(DOMAIN s.Attributes) :
              xvec' = [xvec EXCEPT ![r] =
                         CounterSet(@, AttributesLabelValues(s, ks,
                                        slaveAttributeLabels,
                                        slaveAttributesLabelsExport(slaveAttributeLabels)), 1)]
    /\ xidx' = [xidx EXCEPT ![r] = @ + 1]
    /\ UNCHANGED <<xstate, xdesc, cvars, pvars, nvars>>

-----------------------------------------------------------------------------
(* Specifications.                                                         *)

\* No range is being decoded.
ParseIdle ==
    /\ text = <<>>
    /\ data = <<>>
    /\ toks = <<>>
    /\ rs = <<>>
    /\ perr = "none"
    /\ ppc = "done"
    /\ sz = 0

\* No key is being matched on its own.
NormaliseIdle ==
    /\ attrKey = <<>>
    /\ attrValue = Str("")
    /\ allowName = <<>>
    /\ normalisedAttributeLabels = <<>>
    /\ normalisedKey = <<>>
    /\ renormalised = <<>>
    /\ slaveAttributesExport = [l \in {slaveLabel} |-> ""]
    /\ npc = "done"

\* No setter is being run twice.
ExtractIdle ==
    /\ xstate = EmptyState
    /\ xdesc = "cpus"
    /\ xvec = [r \in Runs |-> {}]
    /\ xidx = [r \in Runs |-> 1]

InitCollector ==
    /\ slaveAttributeLabels \in AllowLists
    /\ metrics = NewMetrics(slaveAttributeLabels)
    /\ registered = FALSE
    /\ descs = {}
    /\ vec = [d \in DOMAIN metrics |-> {}]
    /\ pc = [c \in Calls |-> "idle"]
    /\ st = [c \in Calls |-> EmptyState]
    /\ fetchOK = [c \in Calls |-> TRUE]
    /\ order = [c \in Calls |-> <<>>]
    /\ pos = [c \in Calls |-> 1]
    /\ idx = [c \in Calls |-> 1]
    /\ emitted = [c \in Calls |-> NoMessage]
    /\ overlapped = [c \in Calls |-> FALSE]

\* The collector: no range is being decoded.
Init ==
    /\ InitCollector
    /\ ParseIdle
    /\ NormaliseIdle
    /\ ExtractIdle

Next ==
    \/ Describe
    \/ \E c \in Calls : CollectFetch(c)
    \/ \E c \in Calls : SetterEnter(c)
    \/ \E c \in Calls : GaugeSet(c)
    \/ \E c \in Calls : AttributesSet(c)
    \/ \E c \in Calls : VecCollect(c)
    \/ \E c \in Calls : CollectReturn(c)

Spec == Init /\ [][Next]_vars

\* The range codec on its own: UnmarshalJSON on every text of Texts, into a
\* fresh target, the collector standing by.
InitParse ==
    /\ InitCollector
    /\ slaveAttributeLabels = <<>>
    /\ text \in Texts
    /\ data = text
    /\ toks = <<>>
    /\ rs = <<>>
    /\ perr = "none"
    /\ ppc = "start"
    /\ sz = 0
    /\ NormaliseIdle
    /\ ExtractIdle

NextParse == UnmarshalBegin \/ UnmarshalToken \/ RangesSize

SpecParse == InitParse /\ [][NextParse]_vars

\* The allow-list match on its own: every key of Names with a string or a
\* number under it, against every allow-listed name of Names.
InitNormalise ==
    /\ InitCollector
    /\ slaveAttributeLabels = <<>>
    /\ ParseIdle
    /\ ExtractIdle
    /\ attrKey \in Names
    /\ attrValue \in Values
    /\ allowName \in Names
    /\ normalisedAttributeLabels = <<>>
    /\ normalisedKey = <<>>
    /\ renormalised = <<>>
    /\ slaveAttributesExport = [l \in {slaveLabel} |-> ""]
    /\ npc = "build"

NextNormalise == NormaliseAllowList \/ RangeKey \/ NormaliseAgain

SpecNormalise == InitNormalise /\ [][NextNormalise]_vars

\* Two runs of one setter: every vector of the registry built for the
\* allow-list (rack-id), on every state of Snapshots.
InitExtract ==
    /\ InitCollector
    /\ slaveAttributeLabels = <<rack_dash_id>>
    /\ ParseIdle
    /\ NormaliseIdle
    /\ xstate \in Snapshots
    /\ xdesc \in DOMAIN metrics
    /\ xvec = [r \in Runs |-> {}]
    /\ xidx = [r \in Runs |-> 1]

NextExtract ==
    \/ \E r \in Runs : ExtractGauge(r)
    \/ \E r \in Runs : ExtractAttributes(r)

SpecExtract == InitExtract /\ [][NextExtract]_vars

-----------------------------------------------------------------------------
(* Properties.                                                             *)

\* The vector the last message of call c came from is a gauge.
EmittedGauge(c) ==
    /\ emitted[c].desc # ""
    /\ metrics[emitted[c].desc] # "attributes"

\* The kind of the vector the last message of call c came from.
EmittedKind(c) == metrics[emitted[c].desc]

\* The label values of the slaves or frameworks of a state.
EntityLabelValues(kind, state) ==
    {GaugeLabelValues(kind, Entities(kind, state)[i]) :
        i \in 1..Len(Entities(kind, state))}

\* A gauge's setter run from start to end on a state, nothing interleaved.
RECURSIVE RunGaugeLoop(_, _, _, _)
RunGaugeLoop(samples, d, kind, list) ==
    IF list = <<>> THEN samples
    ELSE RunGaugeLoop(
            SetSample(samples, GaugeLabelValues(kind, Head(list)),
                      GaugeValue(d, kind, Head(list))),
            d, kind, Tail(list))

Extraction(d, state) ==
    RunGaugeLoop({}, d, metrics[d], Entities(metrics[d], state))

\* C1: a Collect that overlaps no other call sends, for every gauge, only
\* samples whose label values are those of a slave or framework of the state
\* it fetched: nothing of an entity that an earlier state had and this one
\* lacks is sent.
C1_StaleEntityGone ==
    \A c \in Calls :
        (EmittedGauge(c) /\ ~overlapped[c]) =>
            \A x \in emitted[c].samples :
                x.lv \in EntityLabelValues(EmittedKind(c), st[c])

\* C1's case: a call alone has fetched a state without slave s1 and sent the
\* cpus gauge, while the next gauge still holds the sample an earlier call
\* recorded for s1.
C1_Witness ==
    \E c \in Calls :
        /\ ~overlapped[c]
        /\ fetchOK[c]
        /\ emitted[c].desc = "cpus"
        /\ emitted[c].samples # {}
        /\ \A i \in 1..Len(st[c].Slaves) : st[c].Slaves[i].PID # "s1"
        /\ \E x \in vec["cpus_used"] : x.lv = <<"s1", "h1">>

\* C2: whatever overlaps, the samples a call sends for a gauge are the whole
\* extraction of one fetched state (or of the empty state of a failed fetch).
C2_NoTornEmission ==
    \A c \in Calls :
        EmittedGauge(c) =>
            \E state \in Snapshots \cup {EmptyState} :
                emitted[c].samples = Extraction(emitted[c].desc, state)

\* C3: a Collect that overlaps no other call sends, for every gauge, as many
\* samples as the state it fetched has slaves (slave gauges) or frameworks
\* (framework gauges).
C3_OneSamplePerEntity ==
    \A c \in Calls :
        (EmittedGauge(c) /\ ~overlapped[c]) =>
            Cardinality(emitted[c].samples) =
                Len(Entities(EmittedKind(c), st[c]))

\* The grammar of section 4.1, stated on the text and not by running the
\* parser.  Stripped(t): t without its leading and trailing decoration.
Stripped(t) ==
    LET keep == {i \in 1..Len(t) : t[i] \notin Cutset}
    IN  IF keep = {} THEN <<>>
        ELSE SubSeq(t, CHOOSE i \in keep : \A j \in keep : i <= j,
                       CHOOSE i \in keep : \A j \in keep : i >= j)

Commas(s) == {p \in 1..Len(s) : s[p] = ","}

\* The position of the k-th comma of s; 0 and Len(s) + 1 stand at the ends.
CommaPos(s, k) ==
    IF k = 0 THEN 0
    ELSE IF k > Cardinality(Commas(s)) THEN Len(s) + 1
    ELSE CHOOSE p \in Commas(s) : Cardinality({q \in Commas(s) : q < p}) = k - 1

\* The k-th comma-separated token of s.
Token(s, k) == SubSeq(s, CommaPos(s, k - 1) + 1, CommaPos(s, k) - 1)

\* x is a run of digits with optional white space before and after it.
IsBound(x) ==
    \E a \in 1..Len(x) : \E b \in a..Len(x) :
        \A i \in 1..Len(x) :
            IF a <= i /\ i <= b THEN x[i] \in Digits ELSE x[i] \in Space

IsDigit(ch) == ch \in Digits

RECURSIVE PlaceSum(_, _)
PlaceSum(ds, i) ==
    IF i > Len(ds) THEN 0
    ELSE DigitVal(ds[i]) * 10 ^ (Len(ds) - i) + PlaceSum(ds, i + 1)

\* The number a bound denotes: its digits weighted by their place.
BoundValue(x) == PlaceSum(SelectSeq(x, IsDigit), 1)

\* tok is <uint>-<uint>.
IsToken(tok) ==
    \E p \in 1..Len(tok) :
        /\ tok[p] = "-"
        /\ IsBound(SubSeq(tok, 1, p - 1))
        /\ IsBound(SubSeq(tok, p + 1, Len(tok)))

TokenPair(tok) ==
    LET p == CHOOSE q \in 1..Len(tok) : tok[q] = "-"
    IN  <<BoundValue(SubSeq(tok, 1, p - 1)), BoundValue(SubSeq(tok, p + 1, Len(tok)))>>

InGrammar(t) ==
    LET s == Stripped(t)
    IN  s = <<>> \/ \A k \in 1..(Cardinality(Commas(s)) + 1) : IsToken(Token(s, k))

GrammarPairs(t) ==
    LET s == Stripped(t)
    IN  IF s = <<>> THEN <<>>
        ELSE [k \in 1..(Cardinality(Commas(s)) + 1) |-> TokenPair(Token(s, k))]

\* C4: whenever UnmarshalJSON returns an error, the target holds no pair
\* taken from the text: it is as it was before the call, empty.
C4_ParseAllOrNothing ==
    (ppc = "done" /\ perr # "none") => rs = <<>>

\* C5: UnmarshalJSON returns without error exactly on the texts of the
\* grammar, and then the target holds one pair per token, in token order;
\* the empty text (after stripping) gives the empty list.
C5_ParseAcceptsGrammar ==
    ppc = "done" =>
        /\ (perr = "none") <=> InGrammar(text)
        /\ (perr = "none") => rs = GrammarPairs(text)

\* C5's case: a decorated text of two tokens with white space around the
\* bounds has been parsed into its two pairs.
C5_Witness ==
    /\ ppc = "done"
    /\ perr = "none"
    /\ text = <<"\"", "[", "1", "-", "5", ",", " ", "7", " ", "-", "\t", "9", "]", "\"">>
    /\ rs = <<<<1, 5>>, <<7, 9>>>>

\* The pool and the resource a gauge reads, and the factor section 4.3 gives
\* it: 1024 for the memory and the disk of a slave, 1 for everything else.
PoolOf(d) ==
    CASE d \in {"cpus", "mem_bytes", "disk_bytes"} -> "Total"
      [] d \in {"cpus_used", "mem_used_bytes", "disk_used_bytes"} -> "Used"
      [] d \in {"cpus_unreserved", "mem_unreserved_bytes",
                "disk_unreserved_bytes"} -> "Unreserved"
      [] d \in {"cpu_used", "mem_used", "disk_used"} -> "Used"
      [] d \in {"cpu_offered", "mem_offered", "disk_offered"} -> "Offered"

ResourceOf(d) ==
    CASE d \in {"cpus", "cpus_used", "cpus_unreserved",
                "cpu_used", "cpu_offered"} -> "CPUs"
      [] d \in {"mem_bytes", "mem_used_bytes", "mem_unreserved_bytes",
                "mem_used", "mem_offered"} -> "Mem"
      [] d \in {"disk_bytes", "disk_used_bytes", "disk_unreserved_bytes",
                "disk_used", "disk_offered"} -> "Disk"

FactorOf(d) ==
    IF d \in {"mem_bytes", "mem_used_bytes", "mem_unreserved_bytes",
              "disk_bytes", "disk_used_bytes", "disk_unreserved_bytes"}
    THEN 1024 ELSE 1

\* The gauges of cpu, memory and disk.
ResourceGauges ==
    (Range(SlaveGauges) \ {"ports", "ports_used", "ports_unreserved"})
        \cup (Range(FrameworkGauges) \ {"active"})

\* Sample x of gauge d is what the state gives for one of its entities: the
\* entity's label values and FactorOf(d) times the value of its pool.
SampleOfState(d, x, state) ==
    LET list == Entities(metrics[d], state)
    IN  \E i \in 1..Len(list) :
            /\ x.lv = GaugeLabelValues(metrics[d], list[i])
            /\ x.v = FactorOf(d) * list[i][PoolOf(d)][ResourceOf(d)]

\* C6: every sample a cpu, memory or disk gauge holds is 1024 times (memory
\* and disk of a slave) or exactly (cpu of a slave; cpu, memory and disk of a
\* framework) the value some fetched state has for the entity of its label
\* values; a call that overlaps no other sends the values of its own state.
C6_UnitConversion ==
    /\ \A d \in ResourceGauges : \A x \in vec[d] :
           \E state \in Snapshots : SampleOfState(d, x, state)
    /\ \A c \in Calls :
           (emitted[c].desc \in ResourceGauges /\ ~overlapped[c]) =>
               \A x \in emitted[c].samples :
                   SampleOfState(emitted[c].desc, x, st[c])

\* C6's case: a call alone has sent the mem_bytes gauge with the 2 KiB of
\* slave s1 as 2048, while the mem_used gauge holds the 14 of framework
\* chronos as 14.
C6_Witness ==
    \E c \in Calls :
        /\ ~overlapped[c]
        /\ emitted[c].desc = "mem_bytes"
        /\ SlaveA.Total.Mem = 2
        /\ [lv |-> <<"s1", "h1">>, v |-> 2048] \in emitted[c].samples
        /\ FrameworkG.Used.Mem = 14
        /\ [lv |-> <<"chronos">>, v |-> 14] \in vec["mem_used"]

\* C7: a call whose fetch failed sends every gauge with no sample.
C7_FailedFetchEmitsNothing ==
    \A c \in Calls :
        (EmittedGauge(c) /\ ~fetchOK[c]) => emitted[c].samples = {}

\* The same of a call that overlaps no other: it sends every gauge empty
\* (checked besides C7, whose statement is not limited to calls that run
\* alone).
FailedFetchAloneEmitsNothing ==
    \A c \in Calls :
        (EmittedGauge(c) /\ ~fetchOK[c] /\ ~overlapped[c]) =>
            emitted[c].samples = {}

\* The children of the attributes counter, none when it is not registered.
AttributesSamples ==
    IF AttributesMetric \in DOMAIN metrics THEN vec[AttributesMetric] ELSE {}

\* C8: no step removes or changes a sample of the attributes counter, and
\* whenever a call sends the counter, it sends every sample recorded so far,
\* each with value 1.
C8_AttributesAdditive ==
    [][ /\ AttributesSamples \subseteq AttributesSamples'
        /\ \A c \in Calls :
              (emitted'[c] # emitted[c] /\ emitted'[c].desc = AttributesMetric) =>
                  /\ AttributesSamples \subseteq emitted'[c].samples
                  /\ \A x \in emitted'[c].samples : x.v = 1 ]_vars

\* C8's case: a call alone that fetched a state without slave s1, and with
\* other attribute values for s2, has sent the counter with the samples
\* earlier calls recorded for s1 and s2.
C8_Witness ==
    \E c \in Calls :
        /\ ~overlapped[c]
        /\ fetchOK[c]
        /\ emitted[c].desc = AttributesMetric
        /\ st[c].Slaves = <<SlaveB2>>
        /\ [lv |-> <<"s1", "", "r1">>, v |-> 1] \in emitted[c].samples
        /\ [lv |-> <<"s2", "", "">>, v |-> 1] \in emitted[c].samples

\* The values label l may take for slave s: the strings of its attributes
\* whose normalised key is l, and "" when it has none.
ExpectedAttribute(s, l) ==
    LET keys == {k \in DOMAIN s.Attributes :
                    normaliseLabel(k) = l /\ s.Attributes[k].t = "string"}
    IN  IF keys = {} THEN {""} ELSE {s.Attributes[k].s : k \in keys}

\* C9: when a call sends the attributes counter, it holds for every slave of
\* the call's state a sample of value 1 for that slave's pid, with one value
\* per label of the counter, where each allow-listed label carries the string
\* of an attribute of the slave whose normalised key is the label, or "" when
\* no attribute of that key decodes to a string.
C9_AttributeLabels ==
    \A c \in Calls :
        emitted[c].desc = AttributesMetric =>
            \A i \in 1..Len(st[c].Slaves) :
                \E x \in emitted[c].samples :
                    /\ x.v = 1
                    /\ x.lv[1] = st[c].Slaves[i].PID
                    /\ Len(x.lv) = Len(labels) + Len(slaveAttributeLabels)
                    /\ \A j \in 1..Len(slaveAttributeLabels) :
                          x.lv[Len(labels) + j] \in
                              ExpectedAttribute(st[c].Slaves[i],
                                  normaliseLabel(slaveAttributeLabels[j]))

\* C9's case: the state has s2 with a numeric rack-id before s1 with the
\* string "r1"; both samples are sent, s2's label empty.
C9_Witness ==
    \E c \in Calls :
        /\ emitted[c].desc = AttributesMetric
        /\ st[c].Slaves = <<SlaveB, SlaveA>>
        /\ emitted[c].samples =
              {[lv |-> <<"s2", "", "">>, v |-> 1], [lv |-> <<"s1", "", "r1">>, v |-> 1]}

\* The registry is the nineteen gauges, and the attributes counter besides
\* them exactly when the allow-list is not empty.
RegistryAsBuilt ==
    /\ {d \in DOMAIN metrics : metrics[d] # "attributes"}
          = Range(SlaveGauges) \cup Range(FrameworkGauges)
    /\ Cardinality({d \in DOMAIN metrics : metrics[d] # "attributes"}) = 19
    /\ Cardinality(DOMAIN metrics) = IF slaveAttributeLabels = <<>> THEN 19 ELSE 20

\* C10: the registry always is as newMasterStateCollector built it, and no
\* step of Describe or of any Collect, alone or overlapping, changes it.
C10_RegistryClosed ==
    []RegistryAsBuilt /\ [][metrics' = metrics]_vars

\* C10's case: Describe has sent the twenty descriptors and two overlapping
\* calls of Collect have each sent a vector.
C10_Witness ==
    /\ registered
    /\ Cardinality(descs) = 20
    /\ \A c \in Calls : overlapped[c] /\ emitted[c].desc # ""

\* Names k and a are of one length and, at every position, hold the same
\* character or two characters that are each "_" or outside [A-Za-z0-9_].
NormalisedAlike(k, a) ==
    /\ Len(k) = Len(a)
    /\ \A i \in 1..Len(k) :
          \/ k[i] = a[i]
          \/ /\ k[i] = "_" \/ k[i] \notin LabelChars
             /\ a[i] = "_" \/ a[i] \notin LabelChars

\* Names k and a differ only in characters outside [A-Za-z0-9_], position
\* by position.
DifferInDisallowedOnly(k, a) ==
    /\ Len(k) = Len(a)
    /\ \A i \in 1..Len(k) :
          k[i] = a[i] \/ (k[i] \notin LabelChars /\ a[i] \notin LabelChars)

\* The key has given its value to the label of the allow-listed name.
KeyContributes ==
    /\ Len(normalisedAttributeLabels) = 1
    /\ slaveAttributesExport[normalisedAttributeLabels[1]] = attrValue.s
    /\ attrValue.s # ""

\* C11: normalising a normalised name changes nothing, and a key with a
\* string under it gives that string to the label of the allow-listed name
\* exactly when key and name normalise to one name, which they do exactly
\* when they are alike up to "_" and the characters no label may hold; a
\* key that differs from the name only in such characters is matched.  (A
\* value that is no string is never taken.)
C11_NormaliseBothSides ==
    /\ npc = "done" => renormalised = normalisedKey
    /\ npc \in {"again", "done"} =>
          /\ normalisedKey = normaliseLabel(attrKey)
          /\ (normaliseLabel(attrKey) = normaliseLabel(allowName))
                <=> NormalisedAlike(attrKey, allowName)
          /\ KeyContributes <=>
                (attrValue.t = "string" /\ normaliseLabel(attrKey) = normaliseLabel(allowName))
          /\ (attrValue.t = "string" /\ DifferInDisallowedOnly(attrKey, allowName))
                => KeyContributes

\* C11's case: the key a- is matched with the allow-listed name a. and its
\* string stands under the label a_, which normalises to itself.
C11_Witness ==
    /\ npc = "done"
    /\ attrKey = <<"a", "-">>
    /\ allowName = <<"a", ".">>
    /\ attrValue = Str("v")
    /\ normalisedAttributeLabels = << <<"a", "_">> >>
    /\ slaveAttributesExport[<<"a", "_">>] = "v"
    /\ renormalised = <<"a", "_">>

\* The gauges of the registry.
Gauges == {d \in DOMAIN metrics : metrics[d] # "attributes"}

\* C12: whatever calls came before, a call that overlaps no other sends each
\* gauge with exactly the samples its setter gives on the state the call
\* fetched (none when the fetch failed), and when it returns every gauge
\* holds exactly those samples: nothing of an earlier call is left.
C12_HistoryIndependent ==
    \A c \in Calls :
        ~overlapped[c] =>
            /\ EmittedGauge(c) =>
                  emitted[c].samples = Extraction(emitted[c].desc, st[c])
            /\ pc[c] = "return" =>
                  \A d \in Gauges : vec[d] = Extraction(d, st[c])

\* C12's case: a call alone returns from the state with s2 only, the cpus
\* gauge holding s2's sample and nothing else, while the attributes counter
\* still holds what an earlier call recorded for s1.
C12_Witness ==
    \E c \in Calls :
        /\ ~overlapped[c]
        /\ pc[c] = "return"
        /\ st[c].Slaves = <<SlaveB2>>
        /\ vec["cpus"] = {[lv |-> <<"s2", "h2">>, v |-> 20]}
        /\ vec["cpu_used"] = {[lv |-> <<"marathon">>, v |-> 7]}
        /\ AttributesMetric \in DOMAIN metrics
        /\ [lv |-> <<"s1", "", "r1">>, v |-> 1] \in vec[AttributesMetric]

\* Run r has gone through the whole list.
XDone(r) == xidx[r] > Len(XEntities)

\* C13: two runs of one setter on one state, each from an empty vector,
\* end with the same samples, whichever vector the setter belongs to.
C13_ExtractionDeterministic ==
    (\A r \in Runs : XDone(r)) => xvec["r1"] = xvec["r2"]

\* The same of the gauges alone: their setters range over the lists of the
\* state in list order, so of two entities with one tuple of label values
\* the later one's value stands in both runs.
GaugeExtractionDeterministic ==
    (metrics[xdesc] # "attributes" /\ \A r \in Runs : XDone(r)) =>
        /\ xvec["r1"] = xvec["r2"]
        /\ xvec["r1"] = Extraction(xdesc, xstate)

PortGauges == {"ports", "ports_used", "ports_unreserved"}

\* The pool a ports gauge reads.
PortPoolOf(d) ==
    CASE d = "ports" -> "Total"
      [] d = "ports_used" -> "Used"
      [] d = "ports_unreserved" -> "Unreserved"

\* How many numbers the pairs of r hold, every pair counted on its own, in
\* the order of the list: a number two pairs hold is counted twice.
RECURSIVE OccurrenceSum(_)
OccurrenceSum(r) ==
    IF r = <<>> THEN 0
    ELSE Cardinality(Head(r)[1]..Head(r)[2]) + OccurrenceSum(Tail(r))

\* Sample x of ports gauge d is what the state gives for one of its slaves.
PortSampleOfState(d, x, state) ==
    \E i \in 1..Len(state.Slaves) :
        /\ x.lv = <<state.Slaves[i].PID, state.Slaves[i].Hostname>>
        /\ x.v = OccurrenceSum(state.Slaves[i][PortPoolOf(d)].Ports)

\* C14: every sample of ports, ports_used and ports_unreserved is, for the
\* slave of its label values in some fetched state, the sum over the pairs
\* of the pool, as the list has them, of how many numbers each pair holds:
\* overlapping and repeated pairs count once each time they occur; a call
\* that overlaps no other sends the sums of its own state.
C14_PortCounts ==
    /\ \A d \in PortGauges : \A x \in vec[d] :
           \E state \in Snapshots : PortSampleOfState(d, x, state)
    /\ \A c \in Calls :
           (emitted[c].desc \in PortGauges /\ ~overlapped[c]) =>
               \A x \in emitted[c].samples :
                   PortSampleOfState(emitted[c].desc, x, st[c])

\* C14's case: a call alone has sent ports_unreserved with 2 for s2, whose
\* pool is the pair 5-5 twice, and 11 for s1, whose pairs 31002-31004 and
\* 31003-31010 overlap in two numbers.
C14_Witness ==
    \E c \in Calls :
        /\ ~overlapped[c]
        /\ emitted[c].desc = "ports_unreserved"
        /\ st[c].Slaves = <<SlaveB, SlaveA>>
        /\ SlaveB.Unreserved.Ports = <<<<5, 5>>, <<5, 5>>>>
        /\ SlaveA.Unreserved.Ports = <<<<31002, 31004>>, <<31003, 31010>>>>
        /\ emitted[c].samples = {[lv |-> <<"s2", "h2">>, v |-> 2],
                                 [lv |-> <<"s1", "h1">>, v |-> 11]}

\* UnmarshalJSON has returned nil.
ParsedWithoutError == ppc \in {"done", "sized"} /\ perr = "none"

\* C15: every pair of a list UnmarshalJSON has decoded without error has
\* lo <= hi, and size() of the list has not wrapped around 2^64 (a residue
\* below 0 stands for a number 2^64 - n).
C15_PairsOrdered ==
    /\ ParsedWithoutError => \A i \in 1..Len(rs) : rs[i][1] <= rs[i][2]
    /\ ppc = "sized" => sz >= 0

\* The text 5-1 is decoded without error into the pair (5, 1), and size()
\* of it is 1 + (1 - 5) in uint64: 2^64 - 3.
ReversedPairWraps ==
    /\ ppc = "sized"
    /\ text = <<"5", "-", "1">>
    /\ rs = <<<<5, 1>>>>
    /\ sz = -3

\* size() of a decoded list whose pairs all have lo <= hi is how many
\* numbers its pairs hold, every pair counted on its own.
OrderedPairsSize ==
    (ppc = "sized" /\ \A i \in 1..Len(rs) : rs[i][1] <= rs[i][2]) =>
        sz = OccurrenceSum(rs)

\* The label dimensions section 4.3 gives the attributes counter: the node
\* identity, then the normalised names of the allow-list.
NodeIdentityAndNames == <<slaveLabel>> \o normaliseLabelList(slaveAttributeLabels)

\* C16: once the descriptors are sent, the attributes counter of a non-empty
\* allow-list has the label dimensions (slave, normalised names...) and no
\* other, and every sample it holds has one value per such dimension, the
\* first of them the pid of a slave.
C16_AttributeDimensions ==
    AttributesMetric \in descs =>
        /\ VecLabels(AttributesMetric, slaveAttributeLabels) = NodeIdentityAndNames
        /\ \A x \in vec[AttributesMetric] :
              /\ Len(x.lv) = Len(NodeIdentityAndNames)
              /\ x.lv[1] \in {"s1", "s2"}

\* What holds of the counter as built: its dimensions are slave, hostname
\* and the normalised names, and every sample carries the pid under slave
\* and the empty string under hostname.
AttributesCarryEmptyHostname ==
    AttributesMetric \in descs =>
        /\ VecLabels(AttributesMetric, slaveAttributeLabels) =
              <<slaveLabel, hostnameLabel>> \o normaliseLabelList(slaveAttributeLabels)
        /\ \A x \in vec[AttributesMetric] :
              /\ Len(x.lv) = 2 + Len(slaveAttributeLabels)
              /\ x.lv[1] \in {"s1", "s2"}
              /\ x.lv[2] = ""

=============================================================================
